---- MODULE Spec2Model ----
(***************************************************************************)
(* Acadex server (src/index.js): an express application whose route        *)
(* handlers map HTTP requests onto four MongoDB collections (users,        *)
(* courses, notes, classrooms).                                            *)
(*                                                                         *)
(* The document store is an external collaborator.  It is modelled as      *)
(* four sequences of documents (insertion order) with atomic, reliable     *)
(* single-document operations: insertOne, findOne, find, updateOne (first  *)
(* match, $set, optional upsert) and deleteOne (first match).  A handler   *)
(* with one store call is one atomic action; POST /classrooms awaits two   *)
(* store calls (findOne, insertOne) and is two actions, so that requests   *)
(* of several clients interleave between them.                             *)
(*                                                                         *)
(* JavaScript values are tagged records, so that truthiness, typeof and    *)
(* the || operator are computed as the language computes them.  Objects    *)
(* (request payloads, documents, response bodies) are functions from       *)
(* field names to values; an absent field is a name outside the domain.    *)
(***************************************************************************)
EXTENDS Integers, Sequences, FiniteSets, TLC

(* ------------------------------ bounds -------------------------------- *)

\* ObjectIds the store and driver generate in one run (documents inserted).
MaxInserts == 2

\* The clock (new Date()) runs from 0 to MaxTime.
MaxTime == 1

\* Clients whose POST /classrooms requests may be in flight together.
NumClients == 2

(* --------------------------- JavaScript values ------------------------ *)

Undefined == [t |-> "undefined"]

Null == [t |-> "null"]

Str(s) == [t |-> "string", v |-> s]

Num(n) == [t |-> "number", v |-> n]

Arr(s) == [t |-> "array", v |-> s]

Obj(o) == [t |-> "object", v |-> o]

DateVal(n) == [t |-> "date", v |-> n]

ObjectIdVal(hex) == [t |-> "objectid", v |-> hex]

True == [t |-> "boolean", v |-> TRUE]

\* NaN: a number that is falsy and no integer.
NaN == [t |-> "NaN"]

\* {}: the object with no keys (req.body || {} when no body was sent).
EmptyObject == [f \in {} |-> Undefined]

\* o.f: the field's value, undefined when the object has no such key.
Get(o, f) == IF f \in DOMAIN o THEN o[f] ELSE Undefined

\* ToBoolean(x): undefined, null, "", 0 and NaN are falsy.
Truthy(x) ==
    CASE x.t = "undefined" -> FALSE
      [] x.t = "null" -> FALSE
      [] x.t = "NaN" -> FALSE
      [] x.t = "string" -> x.v # ""
      [] x.t = "number" -> x.v # 0
      [] OTHER -> TRUE

\* a || b
OrElse(a, b) == IF Truthy(a) THEN a ELSE b

\* typeof x === "number"
IsNumber(x) == x.t \in {"number", "NaN"}

\* Array.isArray(x)
IsArray(x) == x.t = "array"

\* { ...o, f: x }
With(o, f, x) == [g \in DOMAIN o \cup {f} |-> IF g = f THEN x ELSE o[g]]

\* A variant of NoKeys that counts the keys once updatedAt has been set.
NoKeysOnceStamped(o) == DOMAIN With(o, "updatedAt", Null) = {}

\* Object.keys(o).length === 0
NoKeys(o) == DOMAIN o = {}

(* ------------------------------ strings -------------------------------- *)

RECURSIVE Join(_)
\* The string made of a sequence of characters.
Join(cs) == IF cs = <<>> THEN "" ELSE Head(cs) \o Join(Tail(cs))

Digits == {"0", "1", "2", "3", "4", "5", "6", "7", "8", "9"}

UpperCase == {"A", "B", "C", "D", "E", "F", "G", "H", "I", "J", "K", "L", "M",
              "N", "O", "P", "Q", "R", "S", "T", "U", "V", "W", "X", "Y", "Z"}

LowerCase == {"a", "b", "c", "d", "e", "f", "g", "h", "i", "j", "k", "l", "m",
              "n", "o", "p", "q", "r", "s", "t", "u", "v", "w", "x", "y", "z"}

HexChars == Digits \cup {"a", "b", "c", "d", "e", "f", "A", "B", "C", "D", "E", "F"}

\* The hexadecimal text of the n-th ObjectId generated in a run: a fixed
\* prefix and a counter, 24 characters.
OidChars(n) ==
    [i \in 1..24 |->
        IF i = 24 THEN <<"1", "2", "3", "4", "5", "6", "7", "8", "9">>[n]
        ELSE IF i = 1 THEN "6" ELSE IF i = 2 THEN "5" ELSE "0"]

\* The ids the store can generate, as text.
GeneratedOids == [n \in 1..(MaxInserts + 1) |-> Join(OidChars(n))]

OidHex(n) == GeneratedOids[n]

\* A well-formed id that the store never generates.
UnusedOidChars == [i \in 1..24 |-> "f"]

UnusedOid == Join(UnusedOidChars)

\* Malformed ids: the wrong length, and the right length with a character
\* that is no hexadecimal digit.
NotAnIdChars == <<"n", "o", "t", "-", "a", "n", "-", "i", "d">>

NotAnId == Join(NotAnIdChars)

NonHexIdChars == [i \in 1..24 |-> IF i = 24 THEN "z" ELSE "0"]

NonHexId == Join(NonHexIdChars)

\* Class codes sent by clients: two well-formed, one too short, one with a
\* symbol.
ClassCodeChars ==
    { <<"A", "B", "1", "2", "C", "3">>,
      <<"x", "y", "9", "8", "7", "6">>,
      <<"A", "B", "1", "2">>,
      <<"a", "b", "1", "2", "@", "3">> }

\* Capacities sent as text: a decimal numeral and a word.
CapacityChars == { <<"3", "0">>, <<"m", "a", "n", "y">> }

\* The character sequences of the strings whose characters the program
\* inspects (ids, class codes and capacities).
KnownChars ==
    {OidChars(n) : n \in 1..(MaxInserts + 1)}
        \cup {UnusedOidChars, NotAnIdChars, NonHexIdChars}
        \cup ClassCodeChars \cup CapacityChars

\* Each such string's characters.
CharsOf ==
    [s \in {Join(cs) : cs \in KnownChars} |-> CHOOSE cs \in KnownChars : Join(cs) = s]

\* The characters of a string.
Chars(s) == CharsOf[s]

(* ------------------------------- state --------------------------------- *)

VARIABLES
    users,        \* the users collection: documents in insertion order
    courses,      \* the courses collection
    notes,        \* the notes collection
    classrooms,   \* the classrooms collection
    handles,      \* the collection handles init has bound (index.js:19-22)
    listening,    \* app.listen has been called
    nextOid,      \* ObjectIds generated so far
    now,          \* the clock read by new Date()
    pending,      \* per client: the POST /classrooms payload awaiting its insert
    last          \* the last request served and its response

store == <<users, courses, notes, classrooms>>

vars == <<users, courses, notes, classrooms, handles, listening, nextOid, now,
          pending, last>>

Clients == 1..NumClients

\* No POST /classrooms request of this client is between its two store calls.
Idle == [t |-> "idle"]

CollectionNames == {"users", "courses", "notes", "classrooms"}

(* ---------------------------- document store --------------------------- *)

\* The position of the first document of coll whose field f equals x; 0 when
\* there is none.
FirstIndex(coll, f, x) ==
    LET S == {i \in 1..Len(coll) : Get(coll[i], f) = x}
    IN IF S = {} THEN 0 ELSE CHOOSE i \in S : \A j \in S : i <= j

\* coll without its i-th document.
RemoveAt(coll, i) == [j \in 1..(Len(coll) - 1) |-> IF j < i THEN coll[j] ELSE coll[j + 1]]

\* A variant of SetFields that replaces the document by the update, keeping
\* its _id.
ReplaceFields(doc, update) == With(update, "_id", doc._id)

\* { $set: update } applied to one document: the listed fields take the
\* update's values, the others stay.
SetFields(doc, update) ==
    [f \in DOMAIN doc \cup DOMAIN update |->
        IF f \in DOMAIN update THEN update[f] ELSE doc[f]]

\* BSON serialization with the driver's defaults: a key whose value is
\* undefined is stored as null.
Bson(doc) == [f \in DOMAIN doc |-> IF doc[f] = Undefined THEN Null ELSE doc[f]]

\* The _id of the next document inserted.
FreshId == ObjectIdVal(OidHex(nextOid + 1))

\* A variant of IsObjectIdHex that tests the length only.
HasObjectIdLength(id) == Len(Chars(id)) = 24

\* new ObjectId(id) accepts a string of 24 hexadecimal digits and throws on
\* the other strings sent here (none has 12 characters, which drivers
\* before 6.0 take as 12 raw bytes).
IsObjectIdHex(id) ==
    LET cs == Chars(id)
    IN Len(cs) = 24 /\ \A i \in 1..Len(cs) : cs[i] \in HexChars

(* ------------------------------ responses ------------------------------ *)

Err(msg) == [error |-> Str(msg)]

Success == [success |-> True]

NotInitialized == Err("Database not initialized. Please wait.")

InternalError == Err("Internal server error.")

\* res.status(status).json(body) for the request (op, id, payload); ops are
\* the store operations the handler issued.
Respond(op, id, payload, status, body, ops) ==
    last' = [op |-> op, id |-> id, payload |-> payload, status |-> status,
             body |-> body, ops |-> ops]

NoRequest == [op |-> "", id |-> "", payload |-> EmptyObject, status |-> 0,
              body |-> EmptyObject, ops |-> <<>>]

(* ------------------------------- startup ------------------------------- *)

Init ==
    /\ users = <<>>
    /\ courses = <<>>
    /\ notes = <<>>
    /\ classrooms = <<>>
    /\ handles = {}
    /\ listening = FALSE
    /\ nextOid = 0
    /\ now = 0
    /\ pending = [c \in Clients |-> Idle]
    /\ last = NoRequest

\* init(): connect, bind the four handles, then listen.
init ==
    /\ ~listening
    /\ handles' = CollectionNames
    /\ listening' = TRUE
    /\ UNCHANGED <<users, courses, notes, classrooms, nextOid, now, pending, last>>

\* Time passes.
Tick ==
    /\ now < MaxTime
    /\ now' = now + 1
    /\ UNCHANGED <<users, courses, notes, classrooms, handles, listening, nextOid,
                   pending, last>>

(* ------------------------------- courses ------------------------------- *)

CoursePayloads ==
    { [title |-> Str("Algorithms"), faculty |-> Str("CSE")],
      [title |-> Str("Algorithms"), faculty |-> Str("CSE"), noteCount |-> Num(7)],
      [title |-> Str("Algorithms")],
      [title |-> Str(""), faculty |-> Str("CSE")],
      EmptyObject }

CourseUpdates ==
    { EmptyObject,
      [title |-> Str("Graphs")],
      [noteCount |-> Num(7)] }

\* Ids a client may send for a course or a note.
ObjectIdParams ==
    {NotAnId, NonHexId, UnusedOid} \cup {OidHex(n) : n \in 1..MaxInserts}

\* A variant of CourseFieldsMissing that tests the title only.
CourseTitleMissing(p) == ~Truthy(Get(p, "title"))

\* !title || !faculty
CourseFieldsMissing(p) == ~Truthy(Get(p, "title")) \/ ~Truthy(Get(p, "faculty"))

\* A variant of CourseDoc that takes the note counter from the payload when
\* the payload has one.
CourseDocKeepingCount(p, t) ==
    [title |-> Get(p, "title"),
     faculty |-> Get(p, "faculty"),
     code |-> OrElse(Get(p, "code"), Null),
     description |-> OrElse(Get(p, "description"), Null),
     semester |-> OrElse(Get(p, "semester"), Null),
     credits |-> OrElse(Get(p, "credits"), Null),
     noteCount |-> OrElse(Get(p, "noteCount"), Num(0)),
     createdAt |-> DateVal(t),
     updatedAt |-> DateVal(t)]

\* The course document POST /courses builds at time t.
CourseDoc(p, t) ==
    [title |-> Get(p, "title"),
     faculty |-> Get(p, "faculty"),
     code |-> OrElse(Get(p, "code"), Null),
     description |-> OrElse(Get(p, "description"), Null),
     semester |-> OrElse(Get(p, "semester"), Null),
     credits |-> OrElse(Get(p, "credits"), Null),
     noteCount |-> Num(0),
     createdAt |-> DateVal(t),
     updatedAt |-> DateVal(t)]

\* update.updatedAt = new Date()
Stamped(update, t) == With(update, "updatedAt", DateVal(t))

PostCourses(p) ==
    LET op == "POST /courses" IN
    /\ listening
    /\ UNCHANGED <<users, notes, classrooms, handles, listening, now, pending>>
    /\ IF "courses" \notin handles
       THEN /\ Respond(op, "", p, 503, NotInitialized, <<>>)
            /\ UNCHANGED <<courses, nextOid>>
       ELSE IF CourseFieldsMissing(p)
       THEN /\ Respond(op, "", p, 400, Err("title and faculty are required fields."), <<>>)
            /\ UNCHANGED <<courses, nextOid>>
       ELSE LET course == With(Bson(CourseDoc(p, now)), "_id", FreshId) IN
            /\ nextOid < MaxInserts
            /\ courses' = Append(courses, course)
            /\ nextOid' = nextOid + 1
            /\ Respond(op, "", p, 201, [success |-> True, course |-> course],
                       <<"courses.insertOne">>)

GetCourses ==
    LET op == "GET /courses" IN
    /\ listening
    /\ UNCHANGED <<users, courses, notes, classrooms, handles, listening, nextOid,
                   now, pending>>
    /\ IF "courses" \notin handles
       THEN Respond(op, "", EmptyObject, 503, NotInitialized, <<>>)
       ELSE Respond(op, "", EmptyObject, 200, Arr(courses), <<"courses.find">>)

GetCourseById(id) ==
    LET op == "GET /courses/:id" IN
    /\ listening
    /\ UNCHANGED <<users, courses, notes, classrooms, handles, listening, nextOid,
                   now, pending>>
    /\ IF "courses" \notin handles
       THEN Respond(op, id, EmptyObject, 503, NotInitialized, <<>>)
       ELSE IF ~IsObjectIdHex(id)
       THEN Respond(op, id, EmptyObject, 400, Err("Invalid course ID."), <<>>)
       ELSE LET i == FirstIndex(courses, "_id", ObjectIdVal(id)) IN
            IF i = 0
            THEN Respond(op, id, EmptyObject, 404, Err("Course not found."),
                         <<"courses.findOne">>)
            ELSE Respond(op, id, EmptyObject, 200, courses[i], <<"courses.findOne">>)

PutCourse(id, p) ==
    LET op == "PUT /courses/:id" IN
    /\ listening
    /\ UNCHANGED <<users, notes, classrooms, handles, listening, nextOid, now, pending>>
    /\ IF "courses" \notin handles
       THEN Respond(op, id, p, 503, NotInitialized, <<>>) /\ UNCHANGED courses
       ELSE IF NoKeys(p)
       THEN Respond(op, id, p, 400, Err("Update payload is required."), <<>>)
            /\ UNCHANGED courses
       ELSE IF ~IsObjectIdHex(id)
       THEN Respond(op, id, p, 400, Err("Invalid course ID."), <<>>)
            /\ UNCHANGED courses
       ELSE LET i == FirstIndex(courses, "_id", ObjectIdVal(id)) IN
            IF i = 0
            THEN Respond(op, id, p, 404, Err("Course not found."), <<"courses.updateOne">>)
                 /\ UNCHANGED courses
            ELSE /\ courses' = [courses EXCEPT ![i] = SetFields(@, Stamped(p, now))]
                 /\ Respond(op, id, p, 200, Success, <<"courses.updateOne">>)

DeleteCourse(id) ==
    LET op == "DELETE /courses/:id" IN
    /\ listening
    /\ UNCHANGED <<users, notes, classrooms, handles, listening, nextOid, now, pending>>
    /\ IF "courses" \notin handles
       THEN Respond(op, id, EmptyObject, 503, NotInitialized, <<>>) /\ UNCHANGED courses
       ELSE IF ~IsObjectIdHex(id)
       THEN Respond(op, id, EmptyObject, 400, Err("Invalid course ID."), <<>>)
            /\ UNCHANGED courses
       ELSE LET i == FirstIndex(courses, "_id", ObjectIdVal(id)) IN
            IF i = 0
            THEN Respond(op, id, EmptyObject, 404, Err("Course not found."),
                         <<"courses.deleteOne">>)
                 /\ UNCHANGED courses
            ELSE /\ courses' = RemoveAt(courses, i)
                 /\ Respond(op, id, EmptyObject, 200, Success, <<"courses.deleteOne">>)

(* -------------------------------- notes -------------------------------- *)

NotePayloads ==
    { \* one attachment and nothing else
      [title |-> Str("Lecture 1"), subject |-> Str("Algorithms"),
       attachments |-> Arr(<<Obj([secureUrl |-> Str("https://x/y.pdf")])>>)],
      \* entries without a secure URL before the first attachment, and
      \* top-level file fields beside the attachments
      [title |-> Str("Lecture 1"), courseId |-> Str(OidHex(1)),
       attachments |-> Arr(<<Null,
                             Obj([publicId |-> Str("p0")]),
                             Obj([secureUrl |-> Str("https://x/z.pdf"),
                                  format |-> Str("pdf")])>>),
       fileUrl |-> Str("https://top/t.doc"), publicId |-> Str("ptop"),
       format |-> Str("doc"), bytes |-> Num(5)],
      \* no entry with a secure URL, top-level file fields only
      [title |-> Str("Lecture 1"), courseTitle |-> Str("Algorithms"),
       attachments |-> Arr(<<Obj([publicId |-> Str("p0")])>>),
       fileUrl |-> Str("https://top/t.doc"), publicId |-> Str("ptop")],
      \* no file at all
      [title |-> Str("Lecture 1"), subject |-> Str("Algorithms")],
      \* no title
      [subject |-> Str("Algorithms"), fileUrl |-> Str("https://top/t.doc")],
      \* no course information
      [title |-> Str("Lecture 1"), fileUrl |-> Str("https://top/t.doc")],
      EmptyObject }

NoteUpdates ==
    { EmptyObject,
      [title |-> Str("Lecture 2")] }

\* item.f for an entry of the attachments array.
ItemGet(item, f) == IF item.t = "object" THEN Get(item.v, f) ELSE Undefined

\* item && item.secureUrl
HasSecureUrl(item) == Truthy(item) /\ Truthy(ItemGet(item, "secureUrl"))

\* The fixed shape an attachment entry is mapped to.
NormalizedAttachment(item) ==
    Obj([secureUrl |-> ItemGet(item, "secureUrl"),
         publicId |-> OrElse(ItemGet(item, "publicId"), Null),
         originalFilename |-> OrElse(ItemGet(item, "originalFilename"), Null),
         resourceType |-> OrElse(ItemGet(item, "resourceType"), Null),
         format |-> OrElse(ItemGet(item, "format"), Null),
         bytes |-> IF IsNumber(ItemGet(item, "bytes")) THEN ItemGet(item, "bytes") ELSE Null,
         folder |-> OrElse(ItemGet(item, "folder"), Null),
         relativePath |-> OrElse(ItemGet(item, "relativePath"), Null)])

\* Array.isArray(attachments) ? attachments.filter(...).map(...) : []
NormalizedAttachments(p) ==
    LET a == Get(p, "attachments") IN
    IF IsArray(a)
    THEN LET kept == SelectSeq(a.v, HasSecureUrl)
         IN [i \in 1..Len(kept) |-> NormalizedAttachment(kept[i])]
    ELSE <<>>

\* normalizedAttachments[0]
PrimaryAttachment(p) ==
    LET n == NormalizedAttachments(p) IN IF Len(n) = 0 THEN Undefined ELSE n[1]

\* A variant of Mirrored that prefers the top-level field to the
\* attachment's.
MirroredTopFirst(primary, p, f) == OrElse(OrElse(Get(p, f), ItemGet(primary, f)), Null)

\* primaryAttachment?.f || top-level f || null
Mirrored(primary, p, f) == OrElse(OrElse(ItemGet(primary, f), Get(p, f)), Null)

\* typeof primaryAttachment?.bytes === "number" ? primaryAttachment.bytes
\*   : typeof bytes === "number" ? bytes : null
MirroredBytes(primary, p) ==
    IF IsNumber(ItemGet(primary, "bytes")) THEN ItemGet(primary, "bytes")
    ELSE IF IsNumber(Get(p, "bytes")) THEN Get(p, "bytes") ELSE Null

\* !title || (!subject && !courseId && !courseTitle)
NoteFieldsMissing(p) ==
    \/ ~Truthy(Get(p, "title"))
    \/ /\ ~Truthy(Get(p, "subject"))
       /\ ~Truthy(Get(p, "courseId"))
       /\ ~Truthy(Get(p, "courseTitle"))

\* !primaryAttachment && !fileUrl
NoteFileMissing(p) == ~Truthy(PrimaryAttachment(p)) /\ ~Truthy(Get(p, "fileUrl"))

\* The note document POST /notes builds at time t.
NoteDoc(p, t) ==
    LET primary == PrimaryAttachment(p) IN
    [title |-> Get(p, "title"),
     subject |-> OrElse(OrElse(Get(p, "courseTitle"), Get(p, "subject")), Null),
     courseId |-> OrElse(Get(p, "courseId"), Null),
     courseTitle |-> OrElse(OrElse(Get(p, "courseTitle"), Get(p, "subject")), Null),
     description |-> OrElse(Get(p, "description"), Str("")),
     attachments |-> Arr(NormalizedAttachments(p)),
     fileUrl |-> OrElse(OrElse(ItemGet(primary, "secureUrl"), Get(p, "fileUrl")), Null),
     publicId |-> Mirrored(primary, p, "publicId"),
     originalFilename |-> Mirrored(primary, p, "originalFilename"),
     resourceType |-> Mirrored(primary, p, "resourceType"),
     format |-> Mirrored(primary, p, "format"),
     bytes |-> MirroredBytes(primary, p),
     createdAt |-> DateVal(t),
     updatedAt |-> DateVal(t)]

PostNotes(p) ==
    LET op == "POST /notes" IN
    /\ listening
    /\ UNCHANGED <<users, courses, classrooms, handles, listening, now, pending>>
    /\ IF "notes" \notin handles
       THEN /\ Respond(op, "", p, 503, NotInitialized, <<>>)
            /\ UNCHANGED <<notes, nextOid>>
       ELSE IF NoteFieldsMissing(p)
       THEN /\ Respond(op, "", p, 400, Err("title and course information are required."),
                       <<>>)
            /\ UNCHANGED <<notes, nextOid>>
       ELSE IF NoteFileMissing(p)
       THEN /\ Respond(op, "", p, 400, Err("At least one uploaded file is required."), <<>>)
            /\ UNCHANGED <<notes, nextOid>>
       ELSE LET note == With(Bson(NoteDoc(p, now)), "_id", FreshId) IN
            /\ nextOid < MaxInserts
            /\ notes' = Append(notes, note)
            /\ nextOid' = nextOid + 1
            /\ Respond(op, "", p, 201, [success |-> True, note |-> note],
                       <<"notes.insertOne">>)

\* s lists the documents of coll, each once, newest first by createdAt
\* (find({}).sort({ createdAt: -1 })); the order of equal dates is the
\* store's choice.
NewestFirst(coll, s) ==
    /\ Len(s) = Len(coll)
    /\ \E perm \in [1..Len(coll) -> 1..Len(coll)] :
          /\ \A i, j \in 1..Len(coll) : i # j => perm[i] # perm[j]
          /\ s = [i \in 1..Len(coll) |-> coll[perm[i]]]
    /\ \A i, j \in 1..Len(s) : i < j => s[i].createdAt.v >= s[j].createdAt.v

\* The answers find({}).sort({ createdAt: -1 }).toArray() may give.
SortedNotes ==
    {s \in {[i \in 1..Len(notes) |-> notes[perm[i]]] :
                perm \in [1..Len(notes) -> 1..Len(notes)]} : NewestFirst(notes, s)}

GetNotes ==
    LET op == "GET /notes" IN
    /\ listening
    /\ UNCHANGED <<users, courses, notes, classrooms, handles, listening, nextOid,
                   now, pending>>
    /\ IF "notes" \notin handles
       THEN Respond(op, "", EmptyObject, 503, NotInitialized, <<>>)
       ELSE \E s \in SortedNotes :
               Respond(op, "", EmptyObject, 200, Arr(s), <<"notes.find">>)

GetNoteById(id) ==
    LET op == "GET /notes/:id" IN
    /\ listening
    /\ UNCHANGED <<users, courses, notes, classrooms, handles, listening, nextOid,
                   now, pending>>
    /\ IF "notes" \notin handles
       THEN Respond(op, id, EmptyObject, 503, NotInitialized, <<>>)
       ELSE IF ~IsObjectIdHex(id)
       THEN Respond(op, id, EmptyObject, 400, Err("Invalid note ID."), <<>>)
       ELSE LET i == FirstIndex(notes, "_id", ObjectIdVal(id)) IN
            IF i = 0
            THEN Respond(op, id, EmptyObject, 404, Err("Note not found."),
                         <<"notes.findOne">>)
            ELSE Respond(op, id, EmptyObject, 200, notes[i], <<"notes.findOne">>)

PutNote(id, p) ==
    LET op == "PUT /notes/:id" IN
    /\ listening
    /\ UNCHANGED <<users, courses, classrooms, handles, listening, nextOid, now, pending>>
    /\ IF "notes" \notin handles
       THEN Respond(op, id, p, 503, NotInitialized, <<>>) /\ UNCHANGED notes
       ELSE IF NoKeys(p)
       THEN Respond(op, id, p, 400, Err("Update payload is required."), <<>>)
            /\ UNCHANGED notes
       ELSE IF ~IsObjectIdHex(id)
       THEN Respond(op, id, p, 400, Err("Invalid note ID."), <<>>)
            /\ UNCHANGED notes
       ELSE LET i == FirstIndex(notes, "_id", ObjectIdVal(id)) IN
            IF i = 0
            THEN Respond(op, id, p, 404, Err("Note not found."), <<"notes.updateOne">>)
                 /\ UNCHANGED notes
            ELSE /\ notes' = [notes EXCEPT ![i] = SetFields(@, Stamped(p, now))]
                 /\ Respond(op, id, p, 200, Success, <<"notes.updateOne">>)

DeleteNote(id) ==
    LET op == "DELETE /notes/:id" IN
    /\ listening
    /\ UNCHANGED <<users, courses, classrooms, handles, listening, nextOid, now, pending>>
    /\ IF "notes" \notin handles
       THEN Respond(op, id, EmptyObject, 503, NotInitialized, <<>>) /\ UNCHANGED notes
       ELSE IF ~IsObjectIdHex(id)
       THEN Respond(op, id, EmptyObject, 400, Err("Invalid note ID."), <<>>)
            /\ UNCHANGED notes
       ELSE LET i == FirstIndex(notes, "_id", ObjectIdVal(id)) IN
            IF i = 0
            THEN Respond(op, id, EmptyObject, 404, Err("Note not found."),
                         <<"notes.deleteOne">>)
                 /\ UNCHANGED notes
            ELSE /\ notes' = RemoveAt(notes, i)
                 /\ Respond(op, id, EmptyObject, 200, Success, <<"notes.deleteOne">>)

(* -------------------------------- users -------------------------------- *)

\* The users handlers test no handle: with usersCollection still undefined
\* the store call throws a TypeError, which the handler's catch turns into
\* a 500.

UserPayloads ==
    { [clerkId |-> Str("u1"), name |-> Str("Ann"), email |-> Str("ann@x.io"),
       image |-> Str("a.png")],
      [clerkId |-> Str("u1"), name |-> Str("Anna"), email |-> Str("anna@x.io"),
       image |-> Str("b.png")],
      [clerkId |-> Str("u2"), email |-> Str("bob@x.io")],
      [clerkId |-> Str("u1"), name |-> Str("Ann")],
      [email |-> Str("ann@x.io")],
      EmptyObject }

UserUpdates ==
    { EmptyObject,
      [name |-> Str("Zed")],
      [clerkId |-> Str("u1")] }

\* Identity ids a client may send in /users/:id.
UserIdParams == {"u1", "u2", "u3"}

\* !clerkId || !email
UserFieldsMissing(p) == ~Truthy(Get(p, "clerkId")) \/ ~Truthy(Get(p, "email"))

\* { clerkId, name, email, image }
UserFields(p) ==
    [clerkId |-> Get(p, "clerkId"), name |-> Get(p, "name"),
     email |-> Get(p, "email"), image |-> Get(p, "image")]

\* updateOne({ clerkId }, { $set: fields }, { upsert: true }) on coll: the
\* first document with that clerkId takes the fields; when there is none a
\* document with the fields and the generated id is inserted.
Upsert(coll, fields, id) ==
    LET i == FirstIndex(coll, "clerkId", fields.clerkId) IN
    IF i = 0
    THEN Append(coll, With(Bson(fields), "_id", id))
    ELSE [coll EXCEPT ![i] = SetFields(@, Bson(fields))]

PostUsers(p) ==
    LET op == "POST /users" IN
    /\ listening
    /\ UNCHANGED <<courses, notes, classrooms, handles, listening, now, pending>>
    /\ IF UserFieldsMissing(p)
       THEN /\ Respond(op, "", p, 400, Err("clerkId and email are required fields."), <<>>)
            /\ UNCHANGED <<users, nextOid>>
       ELSE IF "users" \notin handles
       THEN /\ Respond(op, "", p, 500, InternalError, <<>>)
            /\ UNCHANGED <<users, nextOid>>
       ELSE LET inserted == FirstIndex(users, "clerkId", Get(p, "clerkId")) = 0 IN
            /\ inserted => nextOid < MaxInserts
            /\ users' = Upsert(users, UserFields(p), FreshId)
            /\ nextOid' = IF inserted THEN nextOid + 1 ELSE nextOid
            /\ Respond(op, "", p, 200,
                       [success |-> True,
                        upsertedId |-> IF inserted THEN FreshId ELSE Null],
                       <<"users.updateOne">>)

GetUsers ==
    LET op == "GET /users" IN
    /\ listening
    /\ UNCHANGED <<users, courses, notes, classrooms, handles, listening, nextOid,
                   now, pending>>
    /\ IF "users" \notin handles
       THEN Respond(op, "", EmptyObject, 500, InternalError, <<>>)
       ELSE Respond(op, "", EmptyObject, 200, Arr(users), <<"users.find">>)

GetUserById(id) ==
    LET op == "GET /users/:id" IN
    /\ listening
    /\ UNCHANGED <<users, courses, notes, classrooms, handles, listening, nextOid,
                   now, pending>>
    /\ IF "users" \notin handles
       THEN Respond(op, id, EmptyObject, 500, InternalError, <<>>)
       ELSE LET i == FirstIndex(users, "clerkId", Str(id)) IN
            IF i = 0
            THEN Respond(op, id, EmptyObject, 404, Err("User not found."),
                         <<"users.findOne">>)
            ELSE Respond(op, id, EmptyObject, 200, users[i], <<"users.findOne">>)

PutUser(id, p) ==
    LET op == "PUT /users/:id" IN
    /\ listening
    /\ UNCHANGED <<courses, notes, classrooms, handles, listening, nextOid, now, pending>>
    /\ IF NoKeys(p)
       THEN Respond(op, id, p, 400, Err("Update payload is required."), <<>>)
            /\ UNCHANGED users
       ELSE IF "users" \notin handles
       THEN Respond(op, id, p, 500, InternalError, <<>>) /\ UNCHANGED users
       ELSE LET i == FirstIndex(users, "clerkId", Str(id)) IN
            IF i = 0
            THEN Respond(op, id, p, 404, Err("User not found."), <<"users.updateOne">>)
                 /\ UNCHANGED users
            ELSE /\ users' = [users EXCEPT ![i] = SetFields(@, Bson(p))]
                 /\ Respond(op, id, p, 200, Success, <<"users.updateOne">>)

DeleteUser(id) ==
    LET op == "DELETE /users/:id" IN
    /\ listening
    /\ UNCHANGED <<courses, notes, classrooms, handles, listening, nextOid, now, pending>>
    /\ IF "users" \notin handles
       THEN Respond(op, id, EmptyObject, 500, InternalError, <<>>) /\ UNCHANGED users
       ELSE LET i == FirstIndex(users, "clerkId", Str(id)) IN
            IF i = 0
            THEN Respond(op, id, EmptyObject, 404, Err("User not found."),
                         <<"users.deleteOne">>)
                 /\ UNCHANGED users
            ELSE /\ users' = RemoveAt(users, i)
                 /\ Respond(op, id, EmptyObject, 200, Success, <<"users.deleteOne">>)

(* ------------------------------ classrooms ----------------------------- *)

ClassroomPayloads ==
    { [institutionType |-> Str("university"), institutionName |-> Str("DU"),
       classroomName |-> Str("CSE-A"), classCode |-> Str("AB12C3")],
      [institutionType |-> Str("university"), institutionName |-> Str("DU"),
       classroomName |-> Str("CSE-B"), classCode |-> Str("xy9876"),
       capacity |-> Str("30")],
      [institutionType |-> Str("university"), institutionName |-> Str("DU"),
       classroomName |-> Str("CSE-A")],
      [institutionType |-> Str("university"), institutionName |-> Str("DU"),
       classroomName |-> Str("CSE-A"), classCode |-> Str("AB12")],
      [institutionType |-> Str("university"), institutionName |-> Str("DU"),
       classroomName |-> Str("CSE-A"), classCode |-> Str("ab12@3")],
      EmptyObject }

JoinPayloads ==
    { [classCode |-> Str("AB12C3"), displayName |-> Str("Ann")],
      [classCode |-> Str("xy9876")],
      [displayName |-> Str("Ann")] }

\* !institutionType || !institutionName || !classroomName || !classCode
ClassroomFieldsMissing(p) ==
    \/ ~Truthy(Get(p, "institutionType"))
    \/ ~Truthy(Get(p, "institutionName"))
    \/ ~Truthy(Get(p, "classroomName"))
    \/ ~Truthy(Get(p, "classCode"))

\* /^[A-Za-z0-9]{6}$/.test(code) for a string.
IsClassCode(code) ==
    LET cs == Chars(code.v)
    IN Len(cs) = 6 /\ \A i \in 1..Len(cs) : cs[i] \in UpperCase \cup LowerCase \cup Digits

DigitValue(c) ==
    CASE c = "0" -> 0 [] c = "1" -> 1 [] c = "2" -> 2 [] c = "3" -> 3 [] c = "4" -> 4
      [] c = "5" -> 5 [] c = "6" -> 6 [] c = "7" -> 7 [] c = "8" -> 8 [] c = "9" -> 9

RECURSIVE Decimal(_)
\* The number a sequence of decimal digits denotes.
Decimal(cs) ==
    IF cs = <<>> THEN 0
    ELSE 10 * Decimal(SubSeq(cs, 1, Len(cs) - 1)) + DigitValue(cs[Len(cs)])

\* Number(x) for a non-empty string: the value of a decimal numeral, NaN for
\* text that is no numeral.
ToNumber(x) ==
    LET cs == Chars(x.v)
    IN IF \A i \in 1..Len(cs) : cs[i] \in Digits THEN Num(Decimal(cs)) ELSE NaN

\* typeof capacity === "number" ? capacity : capacity ? Number(capacity) || null : null
Capacity(x) ==
    IF x.t = "number" THEN x
    ELSE IF Truthy(x) THEN OrElse(ToNumber(x), Null) ELSE Null

\* The classroom document POST /classrooms builds at time t.
ClassroomDoc(p, t) ==
    [institutionType |-> Get(p, "institutionType"),
     institutionName |-> Get(p, "institutionName"),
     departmentName |-> OrElse(Get(p, "departmentName"), Null),
     classOrGrade |-> OrElse(Get(p, "classOrGrade"), Null),
     section |-> OrElse(Get(p, "section"), Null),
     classroomName |-> Get(p, "classroomName"),
     classCode |-> Get(p, "classCode"),
     capacity |-> Capacity(Get(p, "capacity")),
     memberCount |-> Num(0),
     createdAt |-> DateVal(t),
     updatedAt |-> DateVal(t)]

\* A variant of FindByClassCode that looks the code up among the classroom
\* names, not the class codes.
FindByClassroomName(code) == FirstIndex(classrooms, "classroomName", code)

\* classroomsCollection.findOne({ classCode }): the position of the first
\* classroom with that code, 0 when there is none.
FindByClassCode(code) == FirstIndex(classrooms, "classCode", code)

\* A request of client c is between its findOne and its insertOne.
InFlight(c) == pending[c] # Idle

\* POST /classrooms up to its first store call: the checks, then
\* findOne({ classCode }).  A request whose code is not found goes on to
\* its insert, which is a later step.
PostClassroomsFindOne(c, p) ==
    LET op == "POST /classrooms" IN
    /\ listening
    /\ ~InFlight(c)
    /\ UNCHANGED <<users, courses, notes, classrooms, handles, listening, nextOid, now>>
    /\ IF "classrooms" \notin handles
       THEN Respond(op, "", p, 503, NotInitialized, <<>>) /\ UNCHANGED pending
       ELSE IF ClassroomFieldsMissing(p)
       THEN /\ Respond(op, "", p, 400,
                       Err("institutionType, institutionName, classroomName and classCode are required fields."),
                       <<>>)
            /\ UNCHANGED pending
       ELSE IF ~IsClassCode(Get(p, "classCode"))
       THEN /\ Respond(op, "", p, 400,
                       Err("classCode must be 6 characters long and contain only A-Z, 0-9."),
                       <<>>)
            /\ UNCHANGED pending
       ELSE IF FindByClassCode(Get(p, "classCode")) # 0
       THEN /\ Respond(op, "", p, 409,
                       Err("A classroom with this code already exists. Please regenerate."),
                       <<"classrooms.findOne">>)
            /\ UNCHANGED pending
       ELSE /\ pending' = [pending EXCEPT ![c] = [t |-> "insertOne", payload |-> p]]
            /\ UNCHANGED last

\* POST /classrooms from the answer of findOne on: build the document,
\* insertOne, respond.
PostClassroomsInsertOne(c) ==
    LET op == "POST /classrooms"
        p == pending[c].payload
        classroom == With(Bson(ClassroomDoc(p, now)), "_id", FreshId) IN
    /\ listening
    /\ InFlight(c)
    /\ nextOid < MaxInserts
    /\ classrooms' = Append(classrooms, classroom)
    /\ nextOid' = nextOid + 1
    /\ pending' = [pending EXCEPT ![c] = Idle]
    /\ Respond(op, "", p, 201, [success |-> True, classroom |-> classroom],
               <<"classrooms.findOne", "classrooms.insertOne">>)
    /\ UNCHANGED <<users, courses, notes, handles, listening, now>>

\* A variant of PostClassroomsJoin that counts the member in the classroom
\* it finds.
PostClassroomsJoinCounting(p) ==
    LET op == "POST /classrooms/join"
        i == FindByClassCode(Get(p, "classCode")) IN
    /\ listening
    /\ "classrooms" \in handles
    /\ Truthy(Get(p, "classCode"))
    /\ i # 0
    /\ classrooms' = [classrooms EXCEPT ![i].memberCount = Num(@.v + 1)]
    /\ Respond(op, "", p, 200,
               [success |-> True, classroom |-> classrooms'[i],
                displayName |-> OrElse(Get(p, "displayName"), Null)],
               <<"classrooms.findOne", "classrooms.updateOne">>)
    /\ UNCHANGED <<users, courses, notes, handles, listening, nextOid, now, pending>>

PostClassroomsJoin(p) ==
    LET op == "POST /classrooms/join" IN
    /\ listening
    /\ UNCHANGED <<users, courses, notes, classrooms, handles, listening, nextOid,
                   now, pending>>
    /\ IF "classrooms" \notin handles
       THEN Respond(op, "", p, 503, NotInitialized, <<>>)
       ELSE IF ~Truthy(Get(p, "classCode"))
       THEN Respond(op, "", p, 400, Err("classCode is required to join a classroom."),
                    <<>>)
       ELSE LET i == FindByClassCode(Get(p, "classCode")) IN
            IF i = 0
            THEN Respond(op, "", p, 404, Err("No classroom found with this code."),
                         <<"classrooms.findOne">>)
            ELSE Respond(op, "", p, 200,
                         [success |-> True, classroom |-> classrooms[i],
                          displayName |-> OrElse(Get(p, "displayName"), Null)],
                         <<"classrooms.findOne">>)

(* ------------------------- health and catch-all ------------------------ *)

Health ==
    /\ listening
    /\ Respond("GET /health", "", EmptyObject, 200,
               [status |-> Str("ok"), message |-> Str("Server is running")], <<>>)
    /\ UNCHANGED <<users, courses, notes, classrooms, handles, listening, nextOid,
                   now, pending>>

\* Requests no route is registered for: <<method, path>>.
Unrouted ==
    { <<"GET", "/unknown">>,
      <<"GET", "/classrooms">>,
      <<"GET", "/classrooms/:id">>,
      <<"PUT", "/classrooms/:id">>,
      <<"DELETE", "/classrooms/:id">> }

\* app.use((req, res) => ...): the handler after every route.
RouteNotFound(r) ==
    /\ listening
    /\ Respond(r[1] \o " " \o r[2], "", EmptyObject, 404,
               [error |-> Str("Route not found"), path |-> Str(r[2]),
                method |-> Str(r[1]),
                message |-> Str("Make sure the server is running and the route is correct")],
               <<>>)
    /\ UNCHANGED <<users, courses, notes, classrooms, handles, listening, nextOid,
                   now, pending>>

(* ---------------------------- specifications --------------------------- *)

\* A handler names one collection handle only: the courses routes
\* coursesCollection, the notes routes notesCollection, the users routes
\* usersCollection, the classrooms routes classroomsCollection.  The
\* requests are grouped by the collection they work on.

ServeCourses ==
    \/ \E p \in CoursePayloads : PostCourses(p)
    \/ GetCourses
    \/ \E id \in ObjectIdParams : GetCourseById(id)
    \/ \E id \in ObjectIdParams, p \in CourseUpdates : PutCourse(id, p)
    \/ \E id \in ObjectIdParams : DeleteCourse(id)

ServeNotes ==
    \/ \E p \in NotePayloads : PostNotes(p)
    \/ GetNotes
    \/ \E id \in ObjectIdParams : GetNoteById(id)
    \/ \E id \in ObjectIdParams, p \in NoteUpdates : PutNote(id, p)
    \/ \E id \in ObjectIdParams : DeleteNote(id)

ServeUsers ==
    \/ \E p \in UserPayloads : PostUsers(p)
    \/ GetUsers
    \/ \E id \in UserIdParams : GetUserById(id)
    \/ \E id \in UserIdParams, p \in UserUpdates : PutUser(id, p)
    \/ \E id \in UserIdParams : DeleteUser(id)

ServeClassrooms ==
    \/ \E c \in Clients, p \in ClassroomPayloads : PostClassroomsFindOne(c, p)
    \/ \E c \in Clients : PostClassroomsInsertOne(c)
    \/ \E p \in JoinPayloads : PostClassroomsJoin(p)
    \/ \E r \in Unrouted : RouteNotFound(r)

\* The create requests of the four resources.
ServeCreate ==
    \/ \E p \in CoursePayloads : PostCourses(p)
    \/ \E p \in NotePayloads : PostNotes(p)
    \/ \E p \in UserPayloads : PostUsers(p)
    \/ \E c \in Clients, p \in ClassroomPayloads : PostClassroomsFindOne(c, p)
    \/ \E c \in Clients : PostClassroomsInsertOne(c)

\* One request served by the application.
Serve ==
    \/ Health
    \/ ServeCourses
    \/ ServeNotes
    \/ ServeUsers
    \/ ServeClassrooms

\* The program.  A handler runs once init has called app.listen.
Next ==
    \/ init
    \/ Tick
    \/ Serve

Spec == Init /\ [][Next]_vars

\* The program serving the routes of one collection, or of a few: the
\* collections not served stay empty.

NextCourses ==
    \/ init
    \/ Tick
    \/ ServeCourses

SpecCourses == Init /\ [][NextCourses]_vars

NextNotes ==
    \/ init
    \/ Tick
    \/ ServeNotes

SpecNotes == Init /\ [][NextNotes]_vars

\* Notes created and read, never changed or removed.
NextNotesCreated ==
    \/ init
    \/ Tick
    \/ \E p \in NotePayloads : PostNotes(p)
    \/ GetNotes
    \/ \E id \in ObjectIdParams : GetNoteById(id)

SpecNotesCreated == Init /\ [][NextNotesCreated]_vars

\* An update that lists updatedAt itself.
TimestampUpdates == { [updatedAt |-> Str("2020-01-01")] }

\* Documents created and updated, the updates listing updatedAt included.
NextUpdates ==
    \/ init
    \/ Tick
    \/ \E p \in CoursePayloads : PostCourses(p)
    \/ \E p \in NotePayloads : PostNotes(p)
    \/ \E p \in UserPayloads : PostUsers(p)
    \/ \E id \in ObjectIdParams, p \in CourseUpdates \cup TimestampUpdates : PutCourse(id, p)
    \/ \E id \in ObjectIdParams, p \in NoteUpdates \cup TimestampUpdates : PutNote(id, p)
    \/ \E id \in UserIdParams, p \in UserUpdates \cup TimestampUpdates : PutUser(id, p)

SpecUpdates == Init /\ [][NextUpdates]_vars

NextUsers ==
    \/ init
    \/ Tick
    \/ ServeUsers

SpecUsers == Init /\ [][NextUsers]_vars

NextClassrooms ==
    \/ init
    \/ Tick
    \/ ServeClassrooms

SpecClassrooms == Init /\ [][NextClassrooms]_vars

NextDocs ==
    \/ init
    \/ Tick
    \/ ServeCourses
    \/ ServeNotes

SpecDocs == Init /\ [][NextDocs]_vars

NextCrud ==
    \/ init
    \/ Tick
    \/ ServeCourses
    \/ ServeNotes
    \/ ServeUsers

SpecCrud == Init /\ [][NextCrud]_vars

NextCreate ==
    \/ init
    \/ Tick
    \/ ServeCreate

SpecCreate == Init /\ [][NextCreate]_vars

(* ================================ claims ================================ *)

(* ------------------------------ classrooms ----------------------------- *)

\* The class codes of the stored classrooms, in order.
StoredCodes == [i \in 1..Len(classrooms) |-> Get(classrooms[i], "classCode")]

\* C1: classCode is unique across all classrooms: no two stored classroom
\* documents have the same classCode, whatever the interleaving of
\* concurrent POST /classrooms requests.
C1_ClassCodeUnique ==
    \A i, j \in 1..Len(classrooms) : i # j => StoredCodes[i] # StoredCodes[j]

\* The payload has the four required fields and a well-formed class code
\* (one of the two six-character alphanumeric codes clients send).
ValidClassroomPayload(p) ==
    /\ {"institutionType", "institutionName", "classroomName", "classCode"} \subseteq DOMAIN p
    /\ p.classCode \in {Str("AB12C3"), Str("xy9876")}

\* C2: a POST /classrooms request with an otherwise valid payload whose
\* classCode is that of a classroom stored when the request starts, with no
\* other request running, is answered 409 and leaves the stored classrooms
\* as they were.
C2_DuplicateCodeRejected ==
    [][\A c \in Clients, p \in ClassroomPayloads :
          ( /\ PostClassroomsFindOne(c, p)
            /\ ValidClassroomPayload(p)
            /\ \E i \in 1..Len(classrooms) : StoredCodes[i] = p.classCode
            /\ \A d \in Clients : ~InFlight(d) )
          => ( /\ last'.op = "POST /classrooms"
               /\ last'.payload = p
               /\ last'.status = 409
               /\ classrooms' = classrooms
               /\ \A d \in Clients : ~InFlight(d)' )]_vars

\* A stored classroom's code was sent again and refused.
C2_Witness ==
    /\ last.op = "POST /classrooms"
    /\ last.status = 409
    /\ \E i \in 1..Len(classrooms) : StoredCodes[i] = last.payload.classCode
    /\ \A d \in Clients : ~InFlight(d)

(* ------------------------------- creating ------------------------------ *)

\* The payload has no field f, or has it as null or as the empty string.
Lacks(p, f) == f \notin DOMAIN p \/ p[f] = Null \/ p[f] = Str("")

\* The payload has no attachment entry with a secure URL.
LacksAttachment(p) ==
    \/ "attachments" \notin DOMAIN p
    \/ p.attachments.t # "array"
    \/ \A i \in 1..Len(p.attachments.v) :
          \/ p.attachments.v[i].t # "object"
          \/ Lacks(p.attachments.v[i].v, "secureUrl")

\* A required field of the resource is missing from the payload (section 3
\* of the specification).
CourseLacksRequired(p) == Lacks(p, "title") \/ Lacks(p, "faculty")

NoteLacksRequired(p) ==
    \/ Lacks(p, "title")
    \/ Lacks(p, "subject") /\ Lacks(p, "courseId") /\ Lacks(p, "courseTitle")
    \/ LacksAttachment(p) /\ Lacks(p, "fileUrl")

UserLacksRequired(p) == Lacks(p, "clerkId") \/ Lacks(p, "email")

ClassroomLacksRequired(p) ==
    \E f \in {"institutionType", "institutionName", "classroomName", "classCode"} :
        Lacks(p, f)

\* This step answers the request (op, id, p).  Every handler but the first
\* half of POST /classrooms answers in the step it runs in, so in the
\* formulas below this conjunct only spares evaluating a handler on the
\* steps of other requests.
Answers(op, id, p) == last'.op = op /\ last'.id = id /\ last'.payload = p

\* This step answers 400, having issued no store operation, and changes no
\* collection.
RejectedUntouched ==
    /\ last'.status = 400
    /\ last'.ops = <<>>
    /\ store' = store

\* C3: a create request (POST /courses, /notes, /users, /classrooms) whose
\* payload is missing a required field of the resource is answered 400 and
\* writes nothing: every collection is the same after the request as
\* before, and a classroom request is not left waiting for an insert.
C3_MissingFieldRejected ==
    [][ /\ \A p \in CoursePayloads :
              Answers("POST /courses", "", p) /\ PostCourses(p) /\ CourseLacksRequired(p)
                  => RejectedUntouched
        /\ \A p \in NotePayloads :
              Answers("POST /notes", "", p) /\ PostNotes(p) /\ NoteLacksRequired(p)
                  => RejectedUntouched
        /\ \A p \in UserPayloads :
              Answers("POST /users", "", p) /\ PostUsers(p) /\ UserLacksRequired(p)
                  => RejectedUntouched
        /\ \A c \in Clients, p \in ClassroomPayloads :
              ClassroomLacksRequired(p) /\ PostClassroomsFindOne(c, p)
                  => /\ Answers("POST /classrooms", "", p)
                     /\ RejectedUntouched
                     /\ pending' = pending
      ]_vars

\* A course payload without faculty was refused while a course is stored.
C3_Witness ==
    /\ last.op = "POST /courses"
    /\ last.status = 400
    /\ "faculty" \notin DOMAIN last.payload
    /\ "title" \in DOMAIN last.payload
    /\ courses # <<>>

(* -------------------------------- users -------------------------------- *)

\* The positions of the stored users whose identity id is id, in coll.
WithClerkId(coll, id) == {i \in 1..Len(coll) : Get(coll[i], "clerkId") = id}

\* Two payloads with the same identity id and another name, email and image.
SameIdOtherFields(p, q) ==
    /\ {"clerkId", "name", "email", "image"} \subseteq DOMAIN p
    /\ DOMAIN q = DOMAIN p
    /\ q.clerkId = p.clerkId
    /\ q.name # p.name
    /\ q.email # p.email
    /\ q.image # p.image

\* C4: user upsert is idempotent on the key: after two successive valid
\* POST /users requests with the same identity id and different name, email
\* and image, the users collection holds exactly one document with that
\* identity id, and its name, email and image are those of the second
\* request.
C4_UpsertIdempotent ==
    [][\A q \in UserPayloads :
          ( /\ PostUsers(q)
            /\ last.op = "POST /users"
            /\ last.status = 200
            /\ SameIdOtherFields(last.payload, q)
            /\ last'.status = 200 )
          => \E i \in 1..Len(users') :
                /\ WithClerkId(users', q.clerkId) = {i}
                /\ users'[i].name = q.name
                /\ users'[i].email = q.email
                /\ users'[i].image = q.image]_vars

\* C5: the identity id is a unique key of the users collection: whatever
\* POST /users, PUT /users/{id} and DELETE /users/{id} requests were served,
\* at most one stored user has any given identity id.
C5_ClerkIdUnique ==
    \A i, j \in 1..Len(users) :
        Get(users[i], "clerkId") = Get(users[j], "clerkId") => i = j

(* --------------------------- requests by id ---------------------------- *)

\* Syntactically invalid ids: "not-an-id", and 24 characters ending in "z".
MalformedIds == {NotAnId, NonHexId}

\* Well-formed ids: 24 hexadecimal digits.
WellFormedIds == ObjectIdParams \ MalformedIds

\* No document of coll has the id.
NoMatch(coll, id) == \A i \in 1..Len(coll) : coll[i]._id.v # id

\* The outcome claimed for a request by id on coll: 400 and never 404 for a
\* malformed id, 404 for a well-formed id that matches nothing, and no
\* collection changed in both cases.
IdOutcome(coll, id) ==
    /\ id \in MalformedIds => last'.status = 400 /\ store' = store
    /\ id \in WellFormedIds /\ NoMatch(coll, id) => last'.status = 404 /\ store' = store

\* C7: for GET, PUT with a non-empty payload and DELETE on /courses/{id}
\* and /notes/{id}, a syntactically invalid id yields 400 and never 404, a
\* well-formed id with no matching document yields 404, and in both cases
\* the collection is left unchanged.
C7_IdValidity ==
    [][\A id \in ObjectIdParams :
          /\ Answers("GET /courses/:id", id, EmptyObject) /\ GetCourseById(id)
                => IdOutcome(courses, id)
          /\ \A p \in CourseUpdates \ {EmptyObject} :
                Answers("PUT /courses/:id", id, p) /\ PutCourse(id, p)
                    => IdOutcome(courses, id)
          /\ Answers("DELETE /courses/:id", id, EmptyObject) /\ DeleteCourse(id)
                => IdOutcome(courses, id)
          /\ Answers("GET /notes/:id", id, EmptyObject) /\ GetNoteById(id)
                => IdOutcome(notes, id)
          /\ \A p \in NoteUpdates \ {EmptyObject} :
                Answers("PUT /notes/:id", id, p) /\ PutNote(id, p)
                    => IdOutcome(notes, id)
          /\ Answers("DELETE /notes/:id", id, EmptyObject) /\ DeleteNote(id)
                => IdOutcome(notes, id)]_vars

\* A PUT with a payload and an id of the right length that is no
\* hexadecimal text was answered 400 while a note is stored.
C7_Witness ==
    /\ last.op = "PUT /notes/:id"
    /\ last.id = NonHexId
    /\ last.payload # EmptyObject
    /\ last.status = 400
    /\ notes # <<>>

\* C8: PUT /courses/{id}, PUT /notes/{id} and PUT /users/{id} with the
\* empty payload {}, for any id (existing, nonexistent or malformed), is
\* answered 400, issues no store lookup or update, and leaves every
\* document as it was, the target's updatedAt included.
C8_EmptyUpdateRejected ==
    [][ /\ \A id \in ObjectIdParams :
              /\ Answers("PUT /courses/:id", id, EmptyObject) /\ PutCourse(id, EmptyObject)
                    => RejectedUntouched
              /\ Answers("PUT /notes/:id", id, EmptyObject) /\ PutNote(id, EmptyObject)
                    => RejectedUntouched
        /\ \A id \in UserIdParams :
              Answers("PUT /users/:id", id, EmptyObject) /\ PutUser(id, EmptyObject)
                    => RejectedUntouched
      ]_vars

\* An empty PUT on a stored course, sent after the course's last update,
\* was answered 400.
C8_Witness ==
    /\ last.op = "PUT /courses/:id"
    /\ last.payload = EmptyObject
    /\ last.status = 400
    /\ \E i \in 1..Len(courses) :
          /\ courses[i]._id.v = last.id
          /\ courses[i].updatedAt.v < now

(* ----------------------------- note counter ---------------------------- *)

\* This step answers a POST /courses that has title and faculty with 201
\* and a course whose noteCount is 0, and stores that course.
CreatedWithZeroCount ==
    \A p \in CoursePayloads :
        Answers("POST /courses", "", p) /\ PostCourses(p) /\ ~CourseLacksRequired(p)
            => /\ last'.status = 201
               /\ last'.body.course.noteCount = Num(0)
               /\ courses' = Append(courses, last'.body.course)

\* C9: the course note counter is always zero: every POST /courses with
\* title and faculty returns 201 with noteCount 0 whatever the payload
\* carries, and after every request (PUT /courses/{id} with any payload and
\* POST /notes included) every stored course has noteCount 0.
C9_NoteCountAlwaysZero ==
    [][ /\ CreatedWithZeroCount
        /\ \A i \in 1..Len(courses') : courses'[i].noteCount = Num(0) ]_vars

\* C9 as amended: every POST /courses with title and faculty returns 201
\* with noteCount 0 whatever the payload carries and stores the course so,
\* and the noteCount of a stored course changes only in a successful
\* PUT /courses/{id} on that course whose payload lists noteCount, to the
\* payload's value.
C9_NoteCountSetOnlyByPut ==
    [][ /\ CreatedWithZeroCount
        /\ \A i \in 1..Len(courses), j \in 1..Len(courses') :
              ( /\ courses'[j]._id = courses[i]._id
                /\ courses'[j].noteCount # courses[i].noteCount )
              => /\ last'.op = "PUT /courses/:id"
                 /\ last'.id = courses[i]._id.v
                 /\ last'.status = 200
                 /\ "noteCount" \in DOMAIN last'.payload
                 /\ courses'[j].noteCount = last'.payload.noteCount ]_vars

\* A course was created with noteCount 0 from a payload that carries a
\* noteCount of 7, while another stored course has the noteCount 7 a PUT
\* gave it.
C9_Witness ==
    /\ last.op = "POST /courses"
    /\ last.status = 201
    /\ "noteCount" \in DOMAIN last.payload
    /\ last.payload.noteCount = Num(7)
    /\ last.body.course.noteCount = Num(0)
    /\ \E i \in 1..Len(courses) : courses[i].noteCount = Num(7)

(* --------------------------- note attachments -------------------------- *)

ConvenienceFields == {"publicId", "originalFilename", "resourceType", "format"}

AttachmentFields ==
    {"publicId", "originalFilename", "resourceType", "format", "folder", "relativePath"}

\* The entries of the payload's attachments that have a secure URL, in
\* order.
EntriesWithUrl(p) ==
    IF "attachments" \in DOMAIN p /\ p.attachments.t = "array"
    THEN SelectSeq(p.attachments.v,
                   LAMBDA e : e.t = "object" /\ ~Lacks(e.v, "secureUrl"))
    ELSE <<>>

\* The value of field f in o, null when o lacks it.
ValueOrNull(o, f) == IF Lacks(o, f) THEN Null ELSE o[f]

\* The bytes of o when a number, null otherwise.
BytesOrNull(o) ==
    IF "bytes" \in DOMAIN o /\ o.bytes.t = "number" THEN o.bytes ELSE Null

\* The note's attachments are the payload's entries with a secure URL, in
\* order, each with its fields set or null.
AttachmentsKept(note, p) ==
    LET es == EntriesWithUrl(p) IN
    /\ Len(note.attachments.v) = Len(es)
    /\ \A k \in 1..Len(es) :
          LET a == note.attachments.v[k].v IN
          /\ a.secureUrl = es[k].v.secureUrl
          /\ \A f \in AttachmentFields : a[f] = ValueOrNull(es[k].v, f)
          /\ a.bytes = BytesOrNull(es[k].v)

\* This step is a successful POST /notes of payload p: it answers 201 with
\* the note it stores.
NoteCreated(p) ==
    /\ Answers("POST /notes", "", p)
    /\ PostNotes(p)
    /\ last'.status = 201
    /\ notes' = Append(notes, last'.body.note)

\* C10: on every successful POST /notes the note's attachments are the
\* payload's entries that have a secure URL, in order, and the convenience
\* fields (fileUrl, publicId, originalFilename, resourceType, format,
\* bytes) are all taken from the first attachment if one is present, from
\* the top-level fields of the payload only when none is.
C10_MirroredFromFirstAttachment ==
    [][\A p \in NotePayloads :
          LET note == last'.body.note IN
          NoteCreated(p) =>
              /\ AttachmentsKept(note, p)
              /\ IF Len(note.attachments.v) > 0
                 THEN LET first == note.attachments.v[1].v IN
                      /\ note.fileUrl = first.secureUrl
                      /\ \A f \in ConvenienceFields : note[f] = first[f]
                      /\ note.bytes = first.bytes
                 ELSE /\ note.fileUrl = ValueOrNull(p, "fileUrl")
                      /\ \A f \in ConvenienceFields : note[f] = ValueOrNull(p, f)
                      /\ note.bytes = BytesOrNull(p)]_vars

\* C10 as amended: on every successful POST /notes the note's attachments
\* are the payload's entries that have a secure URL, in order and in the
\* fixed shape; fileUrl is the first attachment's secure URL when there is
\* an attachment and the top-level fileUrl otherwise; and each of publicId,
\* originalFilename, resourceType, format and bytes is, field by field, the
\* first attachment's value when it has one, otherwise the top-level
\* field's, otherwise null.
C10_MirroredFieldByField ==
    [][\A p \in NotePayloads :
          LET note == last'.body.note IN
          NoteCreated(p) =>
              /\ AttachmentsKept(note, p)
              /\ IF Len(note.attachments.v) > 0
                 THEN LET first == note.attachments.v[1].v IN
                      /\ note.fileUrl = first.secureUrl
                      /\ \A f \in ConvenienceFields :
                            note[f] = IF first[f] # Null THEN first[f]
                                      ELSE ValueOrNull(p, f)
                      /\ note.bytes = IF first.bytes # Null THEN first.bytes
                                      ELSE BytesOrNull(p)
                 ELSE /\ note.fileUrl = ValueOrNull(p, "fileUrl")
                      /\ \A f \in ConvenienceFields : note[f] = ValueOrNull(p, f)
                      /\ note.bytes = BytesOrNull(p)]_vars

\* A note was created whose first attachment gives the format and whose
\* publicId and bytes come from the top level of the payload.
C10_Witness ==
    /\ last.op = "POST /notes"
    /\ last.status = 201
    /\ Len(last.body.note.attachments.v) > 0
    /\ last.body.note.attachments.v[1].v.format = Str("pdf")
    /\ last.body.note.format = Str("pdf")
    /\ last.body.note.attachments.v[1].v.publicId = Null
    /\ last.body.note.publicId = Str("ptop")
    /\ last.body.note.bytes = Num(5)

(* ------------------------------ lifecycle ------------------------------ *)

\* The requests of a resource's lifecycle after a document's creation:
\* read through the collection and by id, change by id, remove by id.
LifecycleRequests(r) ==
    {"GET /" \o r, "GET /" \o r \o "/:id", "PUT /" \o r \o "/:id",
     "DELETE /" \o r \o "/:id"}

\* The stored documents of a resource.
Collection(r) ==
    CASE r = "users" -> users
      [] r = "courses" -> courses
      [] r = "notes" -> notes
      [] r = "classrooms" -> classrooms

\* The response is that of the handler for unmatched routes.
FellThrough == last.status = 404 /\ Get(last.body, "error") = Str("Route not found")

\* C11: every entity kind has the full lifecycle: for each of the four
\* resources, once a document has been created through POST, the GET on
\* the collection, the GET by id, the PUT by id and the DELETE by id are
\* served by a route of the resource: none falls through to the handler
\* for unmatched routes.
C11_FullLifecycle ==
    \A r \in CollectionNames :
        Collection(r) # <<>> /\ last.op \in LifecycleRequests(r) => ~FellThrough

(* ---------------------------- partial update --------------------------- *)

\* new is old with exactly the fields the payload p lists set to the
\* payload's values and every other field kept; when stamped, updatedAt is
\* the server's time t instead, whether p lists it or not.
MergedInto(old, new, p, stamped, t) ==
    LET listed == IF stamped THEN DOMAIN p \cup {"updatedAt"} ELSE DOMAIN p IN
    /\ DOMAIN new = DOMAIN old \cup listed
    /\ \A f \in listed :
          new[f] = IF stamped /\ f = "updatedAt" THEN DateVal(t) ELSE p[f]
    /\ \A f \in DOMAIN old \ listed : new[f] = old[f]

\* after is before with its i-th document updated so and every other
\* document as it was.
OneUpdated(before, after, i, p, stamped, t) ==
    /\ Len(after) = Len(before)
    /\ MergedInto(before[i], after[i], p, stamped, t)
    /\ \A j \in 1..Len(before) : j # i => after[j] = before[j]

\* C12: a successful PUT on /courses/{id}, /notes/{id} or /users/{id} is a
\* partial update: in the matched document exactly the fields the payload
\* lists take the payload's values, plus the server-set updatedAt on
\* courses and notes and none on users; every field not listed keeps its
\* value, and every other document of every collection is unchanged.
C12_PartialUpdate ==
    [][ /\ \A id \in ObjectIdParams, p \in CourseUpdates \cup TimestampUpdates :
              Answers("PUT /courses/:id", id, p) /\ PutCourse(id, p) /\ last'.status = 200
                  => /\ \E i \in 1..Len(courses) :
                           /\ courses[i]._id.v = id
                           /\ OneUpdated(courses, courses', i, p, TRUE, now)
                     /\ UNCHANGED <<users, notes, classrooms>>
        /\ \A id \in ObjectIdParams, p \in NoteUpdates \cup TimestampUpdates :
              Answers("PUT /notes/:id", id, p) /\ PutNote(id, p) /\ last'.status = 200
                  => /\ \E i \in 1..Len(notes) :
                           /\ notes[i]._id.v = id
                           /\ OneUpdated(notes, notes', i, p, TRUE, now)
                     /\ UNCHANGED <<users, courses, classrooms>>
        /\ \A id \in UserIdParams, p \in UserUpdates \cup TimestampUpdates :
              Answers("PUT /users/:id", id, p) /\ PutUser(id, p) /\ last'.status = 200
                  => /\ \E i \in 1..Len(users) :
                           /\ users[i].clerkId = Str(id)
                           /\ OneUpdated(users, users', i, p, FALSE, now)
                     /\ UNCHANGED <<courses, notes, classrooms>>
      ]_vars

\* A stored course was given another title by a PUT later than its
\* creation: it has the new title, its faculty, and a later updatedAt,
\* beside a stored note.
C12_Witness ==
    /\ last.op = "PUT /courses/:id"
    /\ last.status = 200
    /\ last.payload = [title |-> Str("Graphs")]
    /\ notes # <<>>
    /\ \E i \in 1..Len(courses) :
          /\ courses[i]._id.v = last.id
          /\ courses[i].title = Str("Graphs")
          /\ courses[i].faculty = Str("CSE")
          /\ courses[i].updatedAt.v > courses[i].createdAt.v

(* -------------------------------- joining ------------------------------ *)

\* C13: POST /classrooms/join never changes the store: whatever its outcome
\* (400 for a missing classCode, 404 for an unknown code, 200 with the
\* classroom for a stored one), every collection is the same after the
\* request as before and no insert is set off, so that membership is
\* recorded nowhere; and the memberCount of every stored classroom is 0 in
\* every reachable state.
C13_JoinChangesNothing ==
    [][ /\ \A p \in JoinPayloads :
              PostClassroomsJoin(p)
                  => /\ Answers("POST /classrooms/join", "", p)
                     /\ store' = store
                     /\ pending' = pending
                     /\ last'.status =
                           IF Lacks(p, "classCode") THEN 400
                           ELSE IF \A i \in 1..Len(classrooms) :
                                      classrooms[i].classCode # p.classCode
                                THEN 404 ELSE 200
                     /\ last'.status = 200
                           => /\ last'.body.classroom \in
                                    {classrooms[i] : i \in 1..Len(classrooms)}
                              /\ last'.body.classroom.classCode = p.classCode
        /\ \A i \in 1..Len(classrooms') : classrooms'[i].memberCount = Num(0)
      ]_vars

\* A join with a display name found a stored classroom, whose memberCount
\* is 0 afterwards as before.
C13_Witness ==
    /\ last.op = "POST /classrooms/join"
    /\ last.status = 200
    /\ last.body.displayName = Str("Ann")
    /\ last.body.classroom.memberCount = Num(0)
    /\ \E i \in 1..Len(classrooms) :
          /\ classrooms[i] = last.body.classroom
          /\ classrooms[i].memberCount = Num(0)

====
